---------------------------- MODULE Spec2Model ----------------------------
(***************************************************************************)
(* Model of the BTEB results API server (src/api.py): the search-result    *)
(* handler with its per-source CGPA scan, GPA fetch and result normalizer, *)
(* the admin switch/test handlers, and the registry (supabase_manager) and *)
(* web API fallback they call.  The registry and the fallback live in      *)
(* modules that api.py imports (multi_supabase, web_api_fallback); they    *)
(* are modelled from sections 4.1-4.4 of the specification.                *)
(***************************************************************************)
EXTENDS Integers, Sequences, FiniteSets, TLC

(***************************************************************************)
(* Bounds of the model.                                                    *)
(***************************************************************************)
\* number of registered projects (a prefix of ProjectNames)
NumProjects == 2
\* number of request slots that may be in flight at once
NumRequests == 2
\* longest ref_subjects string enumerated character by character
MaxRefLen == 3

(***************************************************************************)
(* Python values.  A value is a record tagged with its Python type; a str  *)
(* is the sequence of its characters, a dict is a function from its keys,  *)
(* so that a missing key is a key outside DOMAIN.                          *)
(***************************************************************************)
None == [t |-> "none"]
PyBool(b) == [t |-> "bool", v |-> b]
PyInt(n) == [t |-> "int", v |-> n]
PyStr(s) == [t |-> "str", v |-> s]
PyList(xs) == [t |-> "list", v |-> xs]

\* dict.get(key, default)
Get(d, key, default) == IF key \in DOMAIN d THEN d[key] ELSE default

\* Python truthiness (bool(x)), as used by `not x`, `if x` and all([...])
Truthy(x) ==
    CASE x.t = "none" -> FALSE
      [] x.t = "bool" -> x.v
      [] x.t = "int" -> x.v # 0
      [] x.t = "str" -> Len(x.v) > 0
      [] x.t = "list" -> Len(x.v) > 0
      [] OTHER -> TRUE

DigitChars == <<"0", "1", "2", "3", "4", "5", "6", "7", "8", "9">>
Digits == {DigitChars[i] : i \in 1..10}
DigitValue(c) == (CHOOSE i \in 1..10 : DigitChars[i] = c) - 1

RECURSIVE IntChars(_)
\* decimal digits of a natural number
IntChars(n) ==
    IF n < 10 THEN <<DigitChars[n + 1]>>
    ELSE IntChars(n \div 10) \o <<DigitChars[(n % 10) + 1]>>

\* str(x) for the value types that reach it
str(x) ==
    CASE x.t = "str" -> x
      [] x.t = "int" -> PyStr(IF x.v < 0 THEN <<"-">> \o IntChars(0 - x.v) ELSE IntChars(x.v))
      [] x.t = "bool" -> PyStr(IF x.v THEN <<"T", "r", "u", "e">> ELSE <<"F", "a", "l", "s", "e">>)
      [] OTHER -> PyStr(<<"N", "o", "n", "e">>)

(***************************************************************************)
(* json.loads on a str, for the JSON subset made of arrays, strings        *)
(* without escapes, non-negative integers and the literals null, true and  *)
(* false.  Inputs are restricted to characters outside JsonUnmodelled, on  *)
(* which this subset and the full grammar agree.                           *)
(***************************************************************************)
JsonUnmodelled == {"\\", "{", "}", "-", ".", "e", "E", "N", "I", ":"}
JsonWhitespace == {" "}
JsonFail == [ok |-> FALSE, val |-> None, pos |-> 0]
JsonOk(value, next) == [ok |-> TRUE, val |-> value, pos |-> next]

RECURSIVE SkipWs(_, _)
SkipWs(s, i) ==
    IF i <= Len(s) /\ s[i] \in JsonWhitespace THEN SkipWs(s, i + 1) ELSE i

\* s[i] is the opening quote: the string runs to the next quote
ScanString(s, i) ==
    LET closing == {j \in (i + 1)..Len(s) : s[j] = "\""} IN
    IF closing = {} THEN JsonFail
    ELSE LET j == CHOOSE k \in closing : \A m \in closing : k <= m
         IN JsonOk(PyStr(SubSeq(s, i + 1, j - 1)), j + 1)

RECURSIVE DigitRunEnd(_, _)
DigitRunEnd(s, i) ==
    IF i <= Len(s) /\ s[i] \in Digits THEN DigitRunEnd(s, i + 1) ELSE i

RECURSIVE DecimalValue(_, _, _)
DecimalValue(s, i, j) ==
    IF j < i THEN 0 ELSE 10 * DecimalValue(s, i, j - 1) + DigitValue(s[j])

\* s[i] is a digit: "0" alone, or a run of digits not starting with 0
ScanNumber(s, i) ==
    IF s[i] = "0" THEN JsonOk(PyInt(0), i + 1)
    ELSE LET j == DigitRunEnd(s, i)
         IN JsonOk(PyInt(DecimalValue(s, i, j - 1)), j)

StartsWith(s, i, word) ==
    /\ i + Len(word) - 1 <= Len(s)
    /\ SubSeq(s, i, i + Len(word) - 1) = word

RECURSIVE ParseValue(_, _)
RECURSIVE ParseElements(_, _, _)
ParseValue(s, i) ==
    IF i > Len(s) THEN JsonFail
    ELSE IF s[i] = "\"" THEN ScanString(s, i)
    ELSE IF s[i] \in Digits THEN ScanNumber(s, i)
    ELSE IF s[i] = "[" THEN
        LET j == SkipWs(s, i + 1) IN
        IF j <= Len(s) /\ s[j] = "]" THEN JsonOk(PyList(<<>>), j + 1)
        ELSE ParseElements(s, j, <<>>)
    ELSE IF StartsWith(s, i, <<"n", "u", "l", "l">>) THEN JsonOk(None, i + 4)
    ELSE IF StartsWith(s, i, <<"t", "r", "u", "e">>) THEN JsonOk(PyBool(TRUE), i + 4)
    ELSE IF StartsWith(s, i, <<"f", "a", "l", "s", "e">>) THEN JsonOk(PyBool(FALSE), i + 5)
    ELSE JsonFail

ParseElements(s, i, acc) ==
    LET elem == ParseValue(s, i) IN
    IF ~elem.ok THEN JsonFail
    ELSE LET j == SkipWs(s, elem.pos) IN
         IF j > Len(s) THEN JsonFail
         ELSE IF s[j] = "]" THEN JsonOk(PyList(Append(acc, elem.val)), j + 1)
         ELSE IF s[j] = "," THEN ParseElements(s, SkipWs(s, j + 1), Append(acc, elem.val))
         ELSE JsonFail

\* json.loads(s): one value, optional whitespace around it, nothing else
json_loads(s) ==
    LET r == ParseValue(s, SkipWs(s, 1)) IN
    IF r.ok /\ SkipWs(s, r.pos) = Len(s) + 1 THEN r ELSE JsonFail


(***************************************************************************)
(* String literals of api.py.                                              *)
(***************************************************************************)
REF == PyStr(<<"r", "e", "f">>)
DEFAULT_GPA == PyStr(<<"0", ".", "0", "0">>)
DEFAULT_SEMESTER == PyInt(1)
FINAL == PyStr(<<"F", "i", "n", "a", "l">>)
DEFAULT_PUBLISHED_AT == PyStr(<<"2", "0", "2", "5", "-", "0", "1", "-", "0", "1", "T", "0", "0", ":", "0", "0", ":", "0", "0", "Z">>)
SUPABASE_SOURCE == PyStr(<<"s", "u", "p", "a", "b", "a", "s", "e">>)
WEB_API_PREFIX == <<"w", "e", "b", "_", "a", "p", "i">>
DEFAULT_PROJECT == "primary"
WEB_APIS_TRIED == <<"btebresulthub">>

(***************************************************************************)
(* Result normalizer of search_result (api.py 191-196 and 246-270).        *)
(***************************************************************************)
\* api.py 249-258: ref_subjects as the response carries it
decode_ref_subjects(gpa_record) ==
    LET ref_subjects == Get(gpa_record, "ref_subjects", PyList(<<>>)) IN
    IF ref_subjects.t = "str" THEN
        LET decoded == json_loads(ref_subjects.v) IN
        IF decoded.ok THEN decoded.val
        ELSE IF Truthy(ref_subjects) THEN PyList(<<ref_subjects>>) ELSE PyList(<<>>)
    ELSE IF ref_subjects = None THEN PyList(<<>>)
    ELSE ref_subjects

\* the gpa string chosen by truthiness instead of the test against None
gpa_display_truthy(gpa_record) ==
    IF Truthy(Get(gpa_record, "gpa", None))
    THEN str(Get(gpa_record, "gpa", DEFAULT_GPA))
    ELSE REF

\* api.py 264 and 268: the gpa string of an entry
gpa_display(gpa_record) ==
    IF Get(gpa_record, "gpa", None) # None
    THEN str(Get(gpa_record, "gpa", DEFAULT_GPA))
    ELSE REF

\* api.py 267
passed_flag(gpa_record) ==
    PyBool(~Truthy(Get(gpa_record, "is_reference", PyBool(FALSE))))

\* api.py 260-269: one entry of resultData
semester_result(gpa_record) ==
    [publishedAt |-> Get(gpa_record, "created_at", DEFAULT_PUBLISHED_AT),
     semester |-> str(Get(gpa_record, "semester", DEFAULT_SEMESTER)),
     result |-> [gpa |-> gpa_display(gpa_record),
                 ref_subjects |-> decode_ref_subjects(gpa_record)],
     passed |-> passed_flag(gpa_record),
     gpa |-> gpa_display(gpa_record)]

\* resultData built from the last record to the first
result_data_reversed(gpa_records) ==
    [i \in 1..Len(gpa_records) |->
        semester_result(gpa_records[Len(gpa_records) + 1 - i])]

\* api.py 246-270: resultData, one entry per GPA record, in order
result_data(gpa_records) ==
    [i \in 1..Len(gpa_records) |-> semester_result(gpa_records[i])]

\* api.py 192-196: one entry of cgpaData
cgpa_entry(cgpa_record) ==
    [semester |-> Get(cgpa_record, "semester", FINAL),
     cgpa |-> str(Get(cgpa_record, "cgpa", DEFAULT_GPA)),
     publishedAt |-> Get(cgpa_record, "created_at", DEFAULT_PUBLISHED_AT)]


(***************************************************************************)
(* State.                                                                  *)
(***************************************************************************)
VARIABLES
    current_project,  \* supabase_manager.current_project, shared by all requests
    search_order,     \* supabase_manager.get_search_order(), fixed configuration
    pc,               \* where each request slot stands in its handler
    handler,          \* the handler a slot is running
    request,          \* the request's JSON body, or the route's project_name
    original,         \* the active source saved by the resolver / test_project
    idx,              \* position of the running loop in search_order
    result,           \* what search_student_across_projects returned
    cgpa_data,        \* cgpa_data of search_result
    response,         \* [status, body] once the handler has returned
    queries,          \* history: the store queries the request issued
    fallback_calls,   \* history: arguments of each fallback adapter call
    norm_input,       \* normalizer specification: a stored GPA record
    norm_output       \* normalizer specification: its resultData entry

vars == <<current_project, search_order, pc, handler, request, original, idx,
          result, cgpa_data, response, queries, fallback_calls,
          norm_input, norm_output>>

normVars == <<norm_input, norm_output>>
serverVars == <<current_project, search_order, pc, handler, request, original,
                idx, result, cgpa_data, response, queries, fallback_calls>>

Requests == 1..NumRequests

ProjectNames == <<"primary", "secondary", "tertiary", "quaternary", "quinary">>
\* supabase_manager.projects.keys()
Projects == {ProjectNames[i] : i \in 1..NumProjects}
\* a route parameter that names no registered project
UNREGISTERED == "ghost"

\* the configured priority lists: non-empty, without repetition, registered names
SearchOrders ==
    {o \in UNION {[1..n -> Projects] : n \in 1..NumProjects} :
        \A i, j \in DOMAIN o : i # j => o[i] # o[j]}

ROLL == PyStr(<<"1", "2", "3", "4", "5", "6">>)
REGULATION == PyStr(<<"2", "0", "1", "6">>)
PROGRAM == PyStr(<<"D", "i", "p", "l", "o", "m", "a">>)
CREATED_AT == PyStr(<<"2", "0", "2", "4", "-", "0", "6", "-", "3", "0", "T", "1", "0", ":", "0", "0", ":", "0", "0", "Z">>)
EMPTY_STR == PyStr(<<>>)

\* marks a key the dict does not have
Absent == [t |-> "absent"]
MakeDict(fields) ==
    [k \in {key \in DOMAIN fields : fields[key] # Absent} |-> fields[k]]

\* request.get_json(): no body, an empty object, the full request, or the
\* request with one of its three fields missing, null or empty
FullBody == [rollNo |-> ROLL, regulation |-> REGULATION, program |-> PROGRAM]
RequestBodies ==
    {None, MakeDict([rollNo |-> Absent]), FullBody} \cup
    {MakeDict([FullBody EXCEPT ![key] = bad]) :
        key \in {"rollNo", "regulation", "program"},
        bad \in {Absent, None, EMPTY_STR}}

NoResponse == [status |-> 0, body |-> <<>>]
NoProject == ""


(***************************************************************************)
(* The stores and the fallback adapter, as the handlers see them.  What a  *)
(* query returns is the environment's choice; rows carry the project they  *)
(* come from where a response can show it.                                 *)
(***************************************************************************)
ProjectIndex(p) == CHOOSE i \in 1..Len(ProjectNames) : ProjectNames[i] = p

INSTITUTE == [institute_code |-> PyStr(<<"5", "0", "1", "1", "7">>),
              name |-> PyStr(<<"D", "P", "I">>),
              district |-> PyStr(<<"D", "h", "a", "k", "a">>)]

\* a students row matching the request exactly on its three fields
StudentRow(data) ==
    [roll_number |-> data.rollNo,
     regulation_year |-> data.regulation,
     program_name |-> data.program]

\* possible answers of the cgpa_records query on project p
CgpaAnswers(p) ==
    {<<>>,
     <<[roll_number |-> ROLL, semester |-> PyStr(<<"8">>),
        cgpa |-> PyStr(<<"3", ".", DigitChars[ProjectIndex(p) + 1]>>),
        created_at |-> CREATED_AT],
       [roll_number |-> ROLL, cgpa |-> PyInt(ProjectIndex(p))]>>}

\* possible answers of the gpa_records query, ordered by semester
GpaAnswers ==
    {<<>>,
     <<[roll_number |-> ROLL, semester |-> PyInt(1), gpa |-> PyStr(<<"3", ".", "5", "0">>),
        is_reference |-> PyBool(FALSE), ref_subjects |-> PyList(<<>>),
        created_at |-> CREATED_AT],
       [roll_number |-> ROLL, semester |-> PyInt(2), gpa |-> None,
        is_reference |-> PyBool(TRUE),
        ref_subjects |-> PyStr(<<"[", "\"", "M", "\"", "]">>),
        created_at |-> None]>>}

WEB_API_SOURCE == PyStr(<<"w", "e", "b", "_", "a", "p", "i", "_", "b", "t", "e", "b", "r", "e", "s", "u", "l", "t", "h", "u", "b">>)

\* a GPA entry as the adapter delivers it: already in the response's shape
PreShapedEntry ==
    [publishedAt |-> CREATED_AT,
     semester |-> PyStr(<<"1">>),
     result |-> [gpa |-> REF, ref_subjects |-> PyList(<<PyStr(<<"M">>)>>)],
     passed |-> PyBool(FALSE),
     gpa |-> REF]

FallbackGpaRecords == {<<>>, <<PreShapedEntry>>}

\* search_student_in_web_apis(roll_no, regulation, program): what it may return
WebResults(roll_no, regulation, program) ==
    {None, [success |-> PyBool(FALSE)]} \cup
    {[success |-> PyBool(TRUE),
      source |-> WEB_API_SOURCE,
      student_data |-> [roll_number |-> roll_no, regulation_year |-> regulation,
                        program_name |-> program],
      institute_data |-> INSTITUTE,
      gpa_records |-> g] : g \in FallbackGpaRecords}

\* a call of the adapter either raises a transport error or returns
FallbackOutcomes(roll_no, regulation, program) ==
    {[raised |-> TRUE, value |-> None]} \cup
    {[raised |-> FALSE, value |-> w] : w \in WebResults(roll_no, regulation, program)}

(***************************************************************************)
(* Registry and resolver (multi_supabase), from specification 4.1 and 4.3. *)
(***************************************************************************)
\* switch(name): NotFoundError on an unregistered name
switch_raises(name) == name \notin Projects

\* 4.3 step 2b: the loop stops at a source whose student query matched
resolver_stops(outcome) == outcome = "hit"

\* the result of a hit with the default project as its provenance
store_result_default(project_name, data) ==
    [source |-> SUPABASE_SOURCE,
     project_name |-> DEFAULT_PROJECT,
     student_data |-> StudentRow(data),
     institute_data |-> INSTITUTE]

\* 4.3 step 2d: the result of a hit, its provenance the source being tried
store_result(project_name, data) ==
    [source |-> SUPABASE_SOURCE,
     project_name |-> project_name,
     student_data |-> StudentRow(data),
     institute_data |-> INSTITUTE]

\* 4.3 step 4: the adapter's answer wrapped as the resolver's result; a
\* transport error or a failure is a miss
fallback_result(outcome) ==
    IF ~outcome.raised /\ outcome.value # None
       /\ Truthy(Get(outcome.value, "success", None))
    THEN outcome.value
    ELSE None

(***************************************************************************)
(* Pieces of search_result (api.py 153-293).                               *)
(***************************************************************************)
\* api.py 161 and 168: the request is rejected
no_json(data) == data = None \/ DOMAIN data = {}
\* a validation that rejects only a body with none of the three fields
missing_fields_all(data) ==
    \A key \in {"rollNo", "regulation", "program"} : ~Truthy(Get(data, key, None))

missing_fields(data) ==
    \E key \in {"rollNo", "regulation", "program"} : ~Truthy(Get(data, key, None))

\* a result counts as found only once it carries cgpaData
student_found_cgpa(res) ==
    /\ res # None
    /\ "cgpaData" \in DOMAIN res

\* api.py 178
student_found(res) ==
    /\ res # None
    /\ "student_data" \in DOMAIN res
    /\ DOMAIN res.student_data # {}

\* api.py 181
is_supabase(res) == Get(res, "source", None) = SUPABASE_SOURCE

\* api.py 211
is_web_api(res) ==
    LET source == Get(res, "source", EMPTY_STR)
    IN StartsWith(source.v, 1, WEB_API_PREFIX)

\* api.py 203 and 219
\* the provenance ignored: always the default project
found_project_default(res) == DEFAULT_PROJECT

\* the provenance ignored: always the first source of the search order
found_project_first(res) == search_order[1]

found_project(res) == Get(res, "project_name", DEFAULT_PROJECT)

\* api.py 213
web_gpa_records(res) == Get(res, "gpa_records", <<>>)

\* api.py 206-207 and 242
\* the scan's records never attached to the result
cgpa_of_unattached(res, cgpa) == Get(res, "cgpaData", <<>>)

cgpa_of(res, cgpa) == IF cgpa # <<>> THEN cgpa ELSE Get(res, "cgpaData", <<>>)

\* api.py 231-272: the success document
transformed_data(res, cgpa, gpa_records) ==
    [status |-> 200,
     body |-> [success |-> PyBool(TRUE),
               roll |-> res.student_data.roll_number,
               regulation |-> res.student_data.regulation_year,
               exam |-> res.student_data.program_name,
               instituteData |-> [code |-> res.institute_data.institute_code,
                                  name |-> res.institute_data.name,
                                  district |-> res.institute_data.district],
               resultData |-> result_data(gpa_records),
               cgpaData |-> cgpa_of(res, cgpa)]]

\* api.py 281-289: the structured miss
miss_response(data, order) ==
    [status |-> 404,
     body |-> [success |-> PyBool(FALSE),
               error |-> "Student not found in any database or web API",
               roll |-> data.rollNo,
               regulation |-> data.regulation,
               exam |-> data.program,
               projects_searched |-> order,
               web_apis_tried |-> WEB_APIS_TRIED]]

\* api.py 162, 169: validation errors
bad_request(message) == [status |-> 400, body |-> [error |-> message]]

\* api.py 291-293 (and 107-108, 126-127): an exception reaching the handler
error_response(message) == [status |-> 500, body |-> [error |-> message]]

\* api.py 279: the adapter's document returned as it is
web_response(web_result) == [status |-> 200, body |-> web_result]

\* api.py 276-279
web_succeeded(outcome) ==
    /\ outcome.value # None
    /\ Truthy(Get(outcome.value, "success", None))


\* api.py 276: the arguments handed to the adapter
fallback_args(data) == <<data.rollNo, data.regulation, data.program>>

\* one store query, as the history keeps it: the source the request had
\* switched to, and the source whose client ran the query
Query(table, want, got, found) ==
    [table |-> table, want |-> want, got |-> got, found |-> found, raised |-> FALSE]

\* a store query that raised instead of answering
FailedQuery(table, want, got) ==
    [table |-> table, want |-> want, got |-> got, found |-> FALSE, raised |-> TRUE]

FallbackCall(by, args, raised) == [by |-> by, args |-> args, raised |-> raised]

(***************************************************************************)
(* Initial state: the server after start-up, no request in flight.         *)
(***************************************************************************)
InitServer ==
    /\ current_project \in Projects
    /\ search_order \in SearchOrders
    /\ pc = [r \in Requests |-> "idle"]
    /\ handler = [r \in Requests |-> "none"]
    /\ request = [r \in Requests |-> None]
    /\ original = [r \in Requests |-> NoProject]
    /\ idx = [r \in Requests |-> 0]
    /\ result = [r \in Requests |-> None]
    /\ cgpa_data = [r \in Requests |-> <<>>]
    /\ response = [r \in Requests |-> NoResponse]
    /\ queries = [r \in Requests |-> <<>>]
    /\ fallback_calls = [r \in Requests |-> <<>>]

Init ==
    /\ InitServer
    /\ norm_input = None
    /\ norm_output = None

(***************************************************************************)
(* search_result (api.py 153-293).                                         *)
(***************************************************************************)
\* api.py 209-228 once the CGPA part is over: a web API result brings its
\* GPA records and the document is built; a store result goes on to fetch
AfterCgpa(r, res, cgpa) ==
    IF is_web_api(res)
    THEN /\ pc' = [pc EXCEPT ![r] = "done"]
         /\ response' = [response EXCEPT
                ![r] = transformed_data(res, cgpa, web_gpa_records(res))]
         /\ UNCHANGED idx
    ELSE /\ pc' = [pc EXCEPT ![r] = "gpa_switch"]
         /\ UNCHANGED <<response, idx>>

\* api.py 178-181 and 273: where the handler goes with the resolver's result
AfterResolve(r, res) ==
    IF student_found(res)
    THEN IF is_supabase(res)
         THEN /\ pc' = [pc EXCEPT ![r] = "cgpa_switch"]
              /\ idx' = [idx EXCEPT ![r] = 1]
              /\ UNCHANGED response
         ELSE AfterCgpa(r, res, <<>>)
    ELSE /\ pc' = [pc EXCEPT ![r] = "api_fallback"]
         /\ UNCHANGED <<response, idx>>

\* api.py 160-174: read the body, validate, call the resolver, which saves
\* the active source (4.3 step 1)
SearchStart(r) ==
    /\ pc[r] = "idle"
    /\ \E data \in RequestBodies :
        /\ handler' = [handler EXCEPT ![r] = "search_result"]
        /\ request' = [request EXCEPT ![r] = data]
        /\ IF no_json(data)
           THEN /\ response' = [response EXCEPT
                        ![r] = bad_request("No JSON data provided")]
                /\ pc' = [pc EXCEPT ![r] = "done"]
                /\ UNCHANGED <<original, idx>>
           ELSE IF missing_fields(data)
           THEN /\ response' = [response EXCEPT
                        ![r] = bad_request("Missing required fields: rollNo, regulation, program")]
                /\ pc' = [pc EXCEPT ![r] = "done"]
                /\ UNCHANGED <<original, idx>>
           ELSE /\ original' = [original EXCEPT ![r] = current_project]
                /\ idx' = [idx EXCEPT ![r] = 1]
                /\ pc' = [pc EXCEPT ![r] = "resolve_switch"]
                /\ UNCHANGED response
    /\ UNCHANGED <<current_project, search_order, result, cgpa_data, queries,
                   fallback_calls, normVars>>

\* 4.3 step 2a: switch the registry to the next source of the order
ResolveSwitch(r) ==
    /\ pc[r] = "resolve_switch"
    /\ current_project' = search_order[idx[r]]
    /\ pc' = [pc EXCEPT ![r] = "resolve_fetch"]
    /\ UNCHANGED <<search_order, handler, request, original, idx, result,
                   cgpa_data, response, queries, fallback_calls, normVars>>

\* 4.3 steps 2b-2d: findStudent (and findInstitute) on the active source
ResolveFetch(r) ==
    /\ pc[r] = "resolve_fetch"
    /\ \E outcome \in {"hit", "miss", "unavailable"} :
        /\ queries' = [queries EXCEPT ![r] = Append(@,
                Query("students", search_order[idx[r]], current_project,
                      outcome = "hit"))]
        /\ IF resolver_stops(outcome)
           THEN /\ result' = [result EXCEPT
                        ![r] = store_result(search_order[idx[r]], request[r])]
                /\ pc' = [pc EXCEPT ![r] = "resolve_restore"]
                /\ UNCHANGED idx
           ELSE /\ UNCHANGED result
                /\ IF idx[r] < Len(search_order)
                   THEN /\ idx' = [idx EXCEPT ![r] = @ + 1]
                        /\ pc' = [pc EXCEPT ![r] = "resolve_switch"]
                   ELSE /\ pc' = [pc EXCEPT ![r] = "resolve_restore"]
                        /\ UNCHANGED idx
    /\ UNCHANGED <<current_project, search_order, handler, request, original,
                   cgpa_data, response, fallback_calls, normVars>>

\* 4.3 step 3: restore the source that was active when the resolver began
ResolveRestore(r) ==
    /\ pc[r] = "resolve_restore"
    /\ current_project' = original[r]
    /\ IF result[r] # None
       THEN AfterResolve(r, result[r])
       ELSE /\ pc' = [pc EXCEPT ![r] = "resolve_fallback"]
            /\ UNCHANGED <<response, idx>>
    /\ UNCHANGED <<search_order, handler, request, original, result, cgpa_data,
                   queries, fallback_calls, normVars>>

\* 4.3 step 4: no source matched, the resolver asks the fallback adapter
ResolveFallback(r) ==
    /\ pc[r] = "resolve_fallback"
    /\ LET args == fallback_args(request[r]) IN
       \E outcome \in FallbackOutcomes(args[1], args[2], args[3]) :
        /\ fallback_calls' = [fallback_calls EXCEPT ![r] = Append(@,
                FallbackCall("resolver", args, outcome.raised))]
        /\ result' = [result EXCEPT ![r] = fallback_result(outcome)]
        /\ AfterResolve(r, fallback_result(outcome))
    /\ UNCHANGED <<current_project, search_order, handler, request, original,
                   cgpa_data, queries, normVars>>

\* api.py 185: switch to the next source of the CGPA scan
CgpaSwitch(r) ==
    /\ pc[r] = "cgpa_switch"
    /\ current_project' = search_order[idx[r]]
    /\ pc' = [pc EXCEPT ![r] = "cgpa_fetch"]
    /\ UNCHANGED <<search_order, handler, request, original, idx, result,
                   cgpa_data, response, queries, fallback_calls, normVars>>

\* api.py 190-197 and the loop of 183: rows are converted and end the scan,
\* otherwise the scan moves to the next source of the order
CgpaAdvance(r, found, rows) ==
    IF found
    THEN /\ cgpa_data' = [cgpa_data EXCEPT
                ![r] = [i \in 1..Len(rows) |-> cgpa_entry(rows[i])]]
         /\ pc' = [pc EXCEPT ![r] = "cgpa_restore"]
         /\ UNCHANGED idx
    ELSE /\ UNCHANGED cgpa_data
         /\ IF idx[r] < Len(search_order)
            THEN /\ idx' = [idx EXCEPT ![r] = @ + 1]
                 /\ pc' = [pc EXCEPT ![r] = "cgpa_switch"]
            ELSE /\ pc' = [pc EXCEPT ![r] = "cgpa_restore"]
                 /\ UNCHANGED idx

\* an exception of the scan reaching the handler's outer except
scan_aborts_on_error(raised) == raised

\* api.py 184 and 198-200: an exception inside the scan is caught there and
\* the loop continues, so it never ends the request
scan_aborts(raised) == FALSE

\* api.py 190: the query answered with rows
cgpa_found(raised, rows) == ~raised /\ rows # <<>>

\* api.py 186-200: take the active source's client and query cgpa_records;
\* rows end the scan, no rows or an exception move to the next source
CgpaFetch(r) ==
    /\ pc[r] = "cgpa_fetch"
    /\ \E raised \in BOOLEAN : \E rows \in CgpaAnswers(current_project) :
        LET found == cgpa_found(raised, rows) IN
        /\ raised => rows = <<>>
        /\ queries' = [queries EXCEPT ![r] = Append(@,
                IF raised
                THEN FailedQuery("cgpa_records", search_order[idx[r]], current_project)
                ELSE Query("cgpa_records", search_order[idx[r]], current_project, found))]
        /\ IF scan_aborts(raised)
           THEN /\ response' = [response EXCEPT ![r] = error_response("cgpa scan")]
                /\ pc' = [pc EXCEPT ![r] = "done"]
                /\ UNCHANGED <<cgpa_data, idx>>
           ELSE /\ UNCHANGED response
                /\ CgpaAdvance(r, found, rows)
    /\ UNCHANGED <<current_project, search_order, handler, request, original,
                   result, fallback_calls, normVars>>

\* api.py 203: switch to the project the result names
CgpaRestore(r) ==
    /\ pc[r] = "cgpa_restore"
    /\ IF switch_raises(found_project(result[r]))
       THEN /\ response' = [response EXCEPT ![r] = error_response("switch_project")]
            /\ pc' = [pc EXCEPT ![r] = "done"]
            /\ UNCHANGED <<current_project, idx>>
       ELSE /\ current_project' = found_project(result[r])
            /\ AfterCgpa(r, result[r], cgpa_data[r])
    /\ UNCHANGED <<search_order, handler, request, original, result, cgpa_data,
                   queries, fallback_calls, normVars>>

\* api.py 219-220: switch to the project where the student was found; an
\* exception leaves gpa_records empty (226-228)
GpaSwitch(r) ==
    /\ pc[r] = "gpa_switch"
    /\ IF switch_raises(found_project(result[r]))
       THEN /\ response' = [response EXCEPT
                    ![r] = transformed_data(result[r], cgpa_data[r], <<>>)]
            /\ pc' = [pc EXCEPT ![r] = "done"]
            /\ UNCHANGED current_project
       ELSE /\ current_project' = found_project(result[r])
            /\ pc' = [pc EXCEPT ![r] = "gpa_fetch"]
            /\ UNCHANGED response
    /\ UNCHANGED <<search_order, handler, request, original, idx, result,
                   cgpa_data, queries, fallback_calls, normVars>>

\* api.py 221-272: take the active source's client, query gpa_records
\* ordered by semester (an exception gives no records), build the document
GpaFetch(r) ==
    /\ pc[r] = "gpa_fetch"
    /\ \E raised \in BOOLEAN : \E rows \in GpaAnswers :
        /\ raised => rows = <<>>
        /\ queries' = [queries EXCEPT ![r] = Append(@,
                IF raised
                THEN FailedQuery("gpa_records", found_project(result[r]), current_project)
                ELSE Query("gpa_records", found_project(result[r]), current_project,
                           rows # <<>>))]
        /\ response' = [response EXCEPT
                ![r] = transformed_data(result[r], cgpa_data[r], rows)]
    /\ pc' = [pc EXCEPT ![r] = "done"]
    /\ UNCHANGED <<current_project, search_order, handler, request, original,
                   idx, result, cgpa_data, fallback_calls, normVars>>

\* api.py 273-293: the handler's own fallback call and what it returns
ApiFallback(r) ==
    /\ pc[r] = "api_fallback"
    /\ LET args == fallback_args(request[r]) IN
       \E outcome \in FallbackOutcomes(args[1], args[2], args[3]) :
        /\ fallback_calls' = [fallback_calls EXCEPT ![r] = Append(@,
                FallbackCall("search_result", args, outcome.raised))]
        /\ response' = [response EXCEPT ![r] =
                IF outcome.raised THEN error_response("transport error")
                ELSE IF web_succeeded(outcome) THEN web_response(outcome.value)
                ELSE miss_response(request[r], search_order)]
    /\ pc' = [pc EXCEPT ![r] = "done"]
    /\ UNCHANGED <<current_project, search_order, handler, request, original,
                   idx, result, cgpa_data, queries, normVars>>


(***************************************************************************)
(* switch_project (api.py 110-127) and test_project (api.py 80-108).       *)
(***************************************************************************)
\* api.py 117 and 87
\* a check that lets every name through
project_registered_any(project_name) == TRUE

project_registered(project_name) == project_name \in Projects

\* a switch that always selects the default source
switched_to_default(project_name) == DEFAULT_PROJECT

\* api.py 120: the name handed to switch_project is the path parameter
switched_to(project_name) == project_name

not_found(project_name) == [status |-> 404, body |-> [error |-> project_name]]

\* api.py 117-125
AdminSwitch(r) ==
    /\ pc[r] = "idle"
    /\ \E project_name \in Projects \cup {UNREGISTERED} :
        /\ handler' = [handler EXCEPT ![r] = "switch_project"]
        /\ request' = [request EXCEPT ![r] = [project_name |-> project_name]]
        /\ IF project_registered(project_name)
           THEN /\ current_project' = switched_to(project_name)
                /\ response' = [response EXCEPT ![r] =
                        [status |-> 200, body |-> [current_project |-> project_name]]]
           ELSE /\ response' = [response EXCEPT ![r] = not_found(project_name)]
                /\ UNCHANGED current_project
    /\ pc' = [pc EXCEPT ![r] = "done"]
    /\ UNCHANGED <<search_order, original, idx, result, cgpa_data, queries,
                   fallback_calls, normVars>>

\* api.py 87-91: reject an unregistered name, else save the active source
TestStart(r) ==
    /\ pc[r] = "idle"
    /\ \E project_name \in Projects \cup {UNREGISTERED} :
        /\ handler' = [handler EXCEPT ![r] = "test_project"]
        /\ request' = [request EXCEPT ![r] = [project_name |-> project_name]]
        /\ IF project_registered(project_name)
           THEN /\ original' = [original EXCEPT ![r] = current_project]
                /\ pc' = [pc EXCEPT ![r] = "test_switch"]
                /\ UNCHANGED response
           ELSE /\ response' = [response EXCEPT ![r] = not_found(project_name)]
                /\ pc' = [pc EXCEPT ![r] = "done"]
                /\ UNCHANGED original
    /\ UNCHANGED <<current_project, search_order, idx, result, cgpa_data,
                   queries, fallback_calls, normVars>>

\* api.py 92
TestSwitch(r) ==
    /\ pc[r] = "test_switch"
    /\ current_project' = request[r].project_name
    /\ pc' = [pc EXCEPT ![r] = "test_probe"]
    /\ UNCHANGED <<search_order, handler, request, original, idx, result,
                   cgpa_data, response, queries, fallback_calls, normVars>>

\* api.py 95-96: the probe query on the active source's client
TestProbe(r) ==
    /\ pc[r] = "test_probe"
    /\ \E raised \in BOOLEAN :
        /\ queries' = [queries EXCEPT ![r] = Append(@,
                IF raised
                THEN FailedQuery("programs", request[r].project_name, current_project)
                ELSE Query("programs", request[r].project_name, current_project, TRUE))]
        /\ pc' = [pc EXCEPT ![r] = IF raised THEN "test_failed" ELSE "test_passed"]
    /\ UNCHANGED <<current_project, search_order, handler, request, original,
                   idx, result, cgpa_data, response, fallback_calls, normVars>>

\* the restore done only when the probe passed, as if it stood in the try body
restored_project_on_success(saved, switched, passed) ==
    IF passed THEN saved ELSE switched

\* api.py 103-105: the finally clause switches back to original_project
\* whether the probe passed or raised
restored_project(saved, switched, passed) == saved

\* api.py 98-108: the finally clause restores, then the handler returns
TestRestore(r) ==
    /\ pc[r] \in {"test_failed", "test_passed"}
    /\ current_project' = restored_project(original[r], request[r].project_name,
                                           pc[r] = "test_passed")
    /\ response' = [response EXCEPT ![r] =
            IF pc[r] = "test_passed"
            THEN [status |-> 200,
                  body |-> [project |-> request[r].project_name, status |-> "connected"]]
            ELSE error_response("probe failed")]
    /\ pc' = [pc EXCEPT ![r] = "done"]
    /\ UNCHANGED <<search_order, handler, request, original, idx, result,
                   cgpa_data, queries, fallback_calls, normVars>>

\* the response has gone out: the slot is free for the next request
Finish(r) ==
    /\ pc[r] = "done"
    /\ pc' = [pc EXCEPT ![r] = "idle"]
    /\ handler' = [handler EXCEPT ![r] = "none"]
    /\ request' = [request EXCEPT ![r] = None]
    /\ original' = [original EXCEPT ![r] = NoProject]
    /\ idx' = [idx EXCEPT ![r] = 0]
    /\ result' = [result EXCEPT ![r] = None]
    /\ cgpa_data' = [cgpa_data EXCEPT ![r] = <<>>]
    /\ response' = [response EXCEPT ![r] = NoResponse]
    /\ queries' = [queries EXCEPT ![r] = <<>>]
    /\ fallback_calls' = [fallback_calls EXCEPT ![r] = <<>>]
    /\ UNCHANGED <<current_project, search_order, normVars>>

Step(r) ==
    \/ SearchStart(r)
    \/ ResolveSwitch(r)
    \/ ResolveFetch(r)
    \/ ResolveRestore(r)
    \/ ResolveFallback(r)
    \/ CgpaSwitch(r)
    \/ CgpaFetch(r)
    \/ CgpaRestore(r)
    \/ GpaSwitch(r)
    \/ GpaFetch(r)
    \/ ApiFallback(r)
    \/ AdminSwitch(r)
    \/ TestStart(r)
    \/ TestSwitch(r)
    \/ TestProbe(r)
    \/ TestRestore(r)
    \/ Finish(r)

\* the bound on the interleavings explored: one search request in flight at
\* a time, racing with any number of admin requests
OneSearch(r) == \A q \in Requests \ {r} : handler[q] # "search_result"

\* requests served by concurrent threads: any slot may take the next step
Next ==
    \E r \in Requests :
        \/ OneSearch(r) /\ SearchStart(r)
        \/ ResolveSwitch(r)
        \/ ResolveFetch(r)
        \/ ResolveRestore(r)
        \/ ResolveFallback(r)
        \/ CgpaSwitch(r)
        \/ CgpaFetch(r)
        \/ CgpaRestore(r)
        \/ GpaSwitch(r)
        \/ GpaFetch(r)
        \/ ApiFallback(r)
        \/ AdminSwitch(r)
        \/ TestStart(r)
        \/ TestSwitch(r)
        \/ TestProbe(r)
        \/ TestRestore(r)
        \/ Finish(r)

Spec == Init /\ [][Next]_vars

\* requests served one at a time: a handler is entered only while no other
\* request is in flight
Quiet(r) == \A q \in Requests \ {r} : pc[q] = "idle"

NextSeq ==
    \E r \in Requests :
        \/ Quiet(r) /\ SearchStart(r)
        \/ Quiet(r) /\ AdminSwitch(r)
        \/ Quiet(r) /\ TestStart(r)
        \/ ResolveSwitch(r)
        \/ ResolveFetch(r)
        \/ ResolveRestore(r)
        \/ ResolveFallback(r)
        \/ CgpaSwitch(r)
        \/ CgpaFetch(r)
        \/ CgpaRestore(r)
        \/ GpaSwitch(r)
        \/ GpaFetch(r)
        \/ ApiFallback(r)
        \/ TestSwitch(r)
        \/ TestProbe(r)
        \/ TestRestore(r)
        \/ Finish(r)

SpecSeq == Init /\ [][NextSeq]_vars

(***************************************************************************)
(* The normalizer on its own: a stored GPA record drawn from a bounded     *)
(* domain, and the resultData entry api.py 246-270 makes of it.            *)
(***************************************************************************)
RefAlphabet == {"[", "]", "\"", ",", "M", "1"}

RECURSIVE StringsUpTo(_)
StringsUpTo(n) ==
    IF n = 0 THEN {<<>>}
    ELSE LET shorter == StringsUpTo(n - 1)
         IN shorter \cup {Append(s, c) : s \in shorter, c \in RefAlphabet}

RefSamples ==
    {<<"M", "a", "t", "h", ",", "P", "h", "y", "s", "i", "c", "s">>,
     <<"[", "\"", "M", "a", "t", "h", "\"", ",", "\"", "P", "h", "y", "s", "i", "c", "s", "\"", "]">>,
     <<"2", "5", "7", "1", "1">>,
     <<"n", "u", "l", "l">>,
     <<"t", "r", "u", "e">>,
     <<" ", "[", "1", "]", " ">>}

RefStrings == StringsUpTo(MaxRefLen) \cup RefSamples

RefLists == {PyList(<<>>), PyList(<<PyStr(<<"M", "a", "t", "h">>), PyStr(<<"P", "h", "y", "s", "i", "c", "s">>)>>)}

GpaValues == {Absent, None, PyStr(<<"3", ".", "5", "0">>), EMPTY_STR, PyInt(0), PyInt(3), PyInt(12)}
FlagValues == {Absent, None, PyBool(TRUE), PyBool(FALSE)}
CreatedValues == {Absent, None, CREATED_AT}
SemesterValues == {Absent, PyInt(2)}

GpaRecordInputs ==
    {MakeDict([gpa |-> g, is_reference |-> f, ref_subjects |-> rs,
               created_at |-> c, semester |-> sem]) :
        g \in GpaValues, f \in FlagValues,
        rs \in {Absent, None} \cup RefLists \cup {PyStr(<<"M", "a", "t", "h", ",", "P", "h", "y", "s", "i", "c", "s">>)},
        c \in CreatedValues, sem \in SemesterValues}
    \cup
    {MakeDict([gpa |-> g, is_reference |-> f, ref_subjects |-> PyStr(s),
               created_at |-> CREATED_AT, semester |-> PyInt(2)]) :
        g \in {None, PyStr(<<"3", ".", "5", "0">>)}, f \in {PyBool(TRUE), PyBool(FALSE)},
        s \in RefStrings}

InitNorm ==
    /\ InitServer
    /\ current_project = ProjectNames[1]
    /\ search_order = <<ProjectNames[1]>>
    /\ norm_input \in GpaRecordInputs
    /\ norm_output = None

\* api.py 247-270 on one record
NormalizeRecord ==
    /\ norm_output = None
    /\ norm_output' = semester_result(norm_input)
    /\ UNCHANGED <<norm_input, serverVars>>

NextNorm == NormalizeRecord

SpecNorm == InitNorm /\ [][NextNorm]_vars


(***************************************************************************)
(* Properties.                                                             *)
(***************************************************************************)
IsStudentQuery(q) == q.table = "students"
StudentQueries(r) == SelectSeq(queries[r], IsStudentQuery)
StudentHit(r) == \E k \in DOMAIN queries[r] : IsStudentQuery(queries[r][k]) /\ queries[r][k].found
\* the resolver has left its loop over the sources
Resolved(r) ==
    /\ handler[r] = "search_result"
    /\ pc[r] \notin {"idle", "resolve_switch", "resolve_fetch"}
    /\ original[r] # NoProject
SearchDone(r) == handler[r] = "search_result" /\ pc[r] = "done"

\* C1: a search-result request queries the sources for the student in
\* search-order priority (the k-th student query runs on the k-th source),
\* no student query follows a hit, and the result's project_name is exactly
\* the source whose query matched; without a match every source was tried
\* and the result names no store.
C1_OrderedFirstMatch ==
    \A r \in Requests :
        LET sq == StudentQueries(r) IN
        /\ Len(sq) <= Len(search_order)
        /\ \A k \in DOMAIN sq : sq[k].got = search_order[k]
        /\ \A k \in DOMAIN sq : k < Len(sq) => ~sq[k].found
        /\ Resolved(r) =>
            IF StudentHit(r)
            THEN /\ is_supabase(result[r])
                 /\ result[r].project_name = sq[Len(sq)].got
                 /\ \A k \in 1..(Len(sq) - 1) :
                        search_order[k] # result[r].project_name
            ELSE /\ Len(sq) = Len(search_order)
                 /\ ~is_supabase(result[r])

\* C1 witness: the student is missing from the first source and found in the
\* second, and the request has answered with the success document
C1_Witness ==
    \E r \in Requests :
        /\ SearchDone(r)
        /\ Len(StudentQueries(r)) = 2
        /\ ~StudentQueries(r)[1].found
        /\ StudentQueries(r)[2].found
        /\ result[r].project_name = search_order[2]
        /\ response[r].status = 200

\* C2: when a search-result request returns, the active-source pointer
\* equals its value when the request started.
C2_PointerRestored ==
    \A r \in Requests :
        (SearchDone(r) /\ original[r] # NoProject) => current_project = original[r]

\* C3: every cgpa_records and gpa_records query a request issues after
\* switching to a source runs against that source.
C3_NoCrossTalk ==
    \A r \in Requests : \A k \in DOMAIN queries[r] :
        queries[r][k].table \in {"cgpa_records", "gpa_records"}
            => queries[r][k].got = queries[r][k].want

\* C4: when every source returned no student, the fallback adapter is
\* called exactly once in the request, with the request's roll number,
\* regulation and program; if it fails the response is success=false and
\* projects_searched is the list of sources tried.
C4_FallbackOnce ==
    \A r \in Requests :
        (SearchDone(r) /\ original[r] # NoProject /\ ~StudentHit(r)) =>
            /\ Len(fallback_calls[r]) = 1
            /\ fallback_calls[r][1].args
                    = <<request[r].rollNo, request[r].regulation, request[r].program>>
            /\ response[r].status # 200 =>
                /\ response[r].body.success = PyBool(FALSE)
                /\ response[r].body.projects_searched = search_order

\* C5: in a request in which some source returned a matching student
\* record, the fallback adapter is never called.
C5_NoFallbackAfterHit ==
    \A r \in Requests : StudentHit(r) => fallback_calls[r] = <<>>

\* C5 witness: a source matched and the request ran to its response
C5_Witness ==
    \E r \in Requests :
        /\ SearchDone(r)
        /\ StudentHit(r)
        /\ response[r].status = 200
        /\ fallback_calls[r] = <<>>

IsStructuredMiss(resp) ==
    /\ resp.status = 404
    /\ DOMAIN resp.body = {"success", "error", "roll", "regulation", "exam",
                           "projects_searched", "web_apis_tried"}
    /\ resp.body.success = PyBool(FALSE)

\* C6: if no source has the student and the fallback adapter raises a
\* transport error, the response is the structured miss.
C6_FallbackErrorIsMiss ==
    \A r \in Requests :
        (/\ SearchDone(r)
         /\ ~StudentHit(r)
         /\ fallback_calls[r] # <<>>
         /\ fallback_calls[r][Len(fallback_calls[r])].raised)
            => IsStructuredMiss(response[r])

\* C7: every search-result request that passed validation ends with the
\* success document or the structured miss, whatever was raised inside.
C7_StructuredOutcome ==
    \A r \in Requests :
        (SearchDone(r) /\ original[r] # NoProject) =>
            \/ IsStructuredMiss(response[r])
            \/ /\ response[r].status = 200
               /\ Get(response[r].body, "success", None) = PyBool(TRUE)

\* the stored gpa is null or missing
GpaIsNull(rec) == "gpa" \notin DOMAIN rec \/ rec.gpa = None

\* the string form of the stored gpa values, written out
StringForm(value) ==
    CASE value = PyInt(0) -> PyStr(<<"0">>)
      [] value = PyInt(3) -> PyStr(<<"3">>)
      [] value = PyInt(12) -> PyStr(<<"1", "2">>)
      [] OTHER -> value

\* C8: the normalized entry has gpa "ref" exactly when the stored gpa is
\* null or missing and otherwise the stored gpa's string form, and passed is
\* the negation of is_reference; null with is_reference=true gives "ref"
\* and false, "3.50" with is_reference=false gives "3.50" and true.
C8_GpaAndPassed ==
    norm_output # None =>
        /\ (norm_output.gpa = REF) <=> GpaIsNull(norm_input)
        /\ ~GpaIsNull(norm_input) => norm_output.gpa = StringForm(norm_input.gpa)
        /\ norm_output.result.gpa = norm_output.gpa
        /\ norm_output.passed
                = PyBool(Get(norm_input, "is_reference", None) # PyBool(TRUE))
        /\ (GpaIsNull(norm_input) /\ Get(norm_input, "is_reference", None) = PyBool(TRUE))
                => (norm_output.gpa = REF /\ norm_output.passed = PyBool(FALSE))
        /\ (Get(norm_input, "gpa", None) = PyStr(<<"3", ".", "5", "0">>)
            /\ Get(norm_input, "is_reference", None) = PyBool(FALSE))
                => (norm_output.gpa = PyStr(<<"3", ".", "5", "0">>)
                    /\ norm_output.passed = PyBool(TRUE))

\* C8 witness: a record with gpa null and is_reference true has been normalized
C8_Witness ==
    /\ norm_output # None
    /\ "gpa" \in DOMAIN norm_input
    /\ norm_input.gpa = None
    /\ Get(norm_input, "is_reference", None) = PyBool(TRUE)
    /\ norm_output.gpa = REF
    /\ norm_output.passed = PyBool(FALSE)

\* C9: whatever the shape of the stored ref_subjects, the normalized
\* ref_subjects is a list: a list unchanged, null the empty list, and a
\* non-empty string that does not decode the one-element list of that string.
C9_RefSubjectsIsList ==
    norm_output # None =>
        LET stored == Get(norm_input, "ref_subjects", Absent)
            normalized == norm_output.result.ref_subjects
        IN /\ normalized.t = "list"
           /\ stored.t = "list" => normalized = stored
           /\ stored = None => normalized = PyList(<<>>)
           /\ (stored.t = "str" /\ stored.v # <<>> /\ ~json_loads(stored.v).ok)
                => normalized = PyList(<<stored>>)

\* C10: when the result comes from the fallback channel, each entry of
\* resultData is the adapter's entry, unchanged.
C10_FallbackEntriesUnchanged ==
    \A r \in Requests :
        (/\ SearchDone(r)
         /\ result[r] # None
         /\ is_web_api(result[r])
         /\ response[r].status = 200)
            => response[r].body.resultData = result[r].gpa_records


(***************************************************************************)
(* Properties of the search handler after a store matched.                 *)
(***************************************************************************)
IsCgpaQuery(q) == q.table = "cgpa_records"
CgpaQueries(r) == SelectSeq(queries[r], IsCgpaQuery)
IsGpaQuery(q) == q.table = "gpa_records"
GpaQueries(r) == SelectSeq(queries[r], IsGpaQuery)
\* a search request that matched in a store and returned the success document
HitDone(r) == SearchDone(r) /\ StudentHit(r) /\ response[r].status = 200
\* the source whose student query matched
HitSource(r) == StudentQueries(r)[Len(StudentQueries(r))].got

\* C11: every entry of resultData and of cgpaData in a success document
\* carries a publishedAt that is present and not null (the record's
\* created_at, or the sentinel when created_at is absent or null).
C11_PublishedAtPresent ==
    \A r \in Requests :
        HitDone(r) =>
            /\ \A i \in DOMAIN response[r].body.resultData :
                    response[r].body.resultData[i].publishedAt
                        \in {CREATED_AT, DEFAULT_PUBLISHED_AT}
            /\ \A i \in DOMAIN response[r].body.cgpaData :
                    response[r].body.cgpaData[i].publishedAt
                        \in {CREATED_AT, DEFAULT_PUBLISHED_AT}

\* a request body lacking one of the three required fields, or holding it
\* as null or as the empty string
Incomplete(data) ==
    \/ data = None
    \/ \E key \in {"rollNo", "regulation", "program"} :
            \/ key \notin DOMAIN data
            \/ data[key] = None
            \/ data[key] = EMPTY_STR

\* the response to an incomplete search request and what the request left
RejectedUntouched(r) ==
    /\ response[r].status = 400
    /\ original[r] = NoProject
    /\ queries[r] = <<>>
    /\ fallback_calls[r] = <<>>

\* C12: a search request with rollNo, regulation or program missing or empty
\* is answered 400 by the step that reads it, before any source is queried:
\* that step leaves the active-source pointer as it was, and the request
\* issues no store query, no registry switch and no fallback call.
C12_RejectedBeforeAnySource ==
    /\ [](\A r \in Requests :
            (handler[r] = "search_result" /\ Incomplete(request[r])) =>
                (pc[r] = "done" /\ RejectedUntouched(r)))
    /\ [][\A r \in Requests :
            (pc[r] = "idle" /\ handler'[r] = "search_result"
                            /\ Incomplete(request'[r])) =>
                (pc'[r] = "done" /\ current_project' = current_project)]_vars

\* C12 witness: a body with rollNo and regulation but an empty program was
\* rejected
C12_Witness ==
    \E r \in Requests :
        /\ SearchDone(r)
        /\ request[r] # None
        /\ {"rollNo", "regulation", "program"} \subseteq DOMAIN request[r]
        /\ request[r].program = EMPTY_STR
        /\ RejectedUntouched(r)

(***************************************************************************)
(* Properties of the admin handlers and of the active-source pointer.      *)
(***************************************************************************)
\* C13: the admin switch answers 404 for an unregistered name and leaves
\* the active-source pointer unchanged; for a registered name it sets the
\* pointer to exactly that name.
C13_AdminSwitch ==
    [][\A r \in Requests :
        (pc[r] = "idle" /\ handler'[r] = "switch_project") =>
            LET name == request'[r].project_name IN
            IF name \in Projects
            THEN current_project' = name /\ response'[r].status = 200
            ELSE current_project' = current_project /\ response'[r].status = 404]_vars

\* C13 witness: an admin switch to the second source went through
C13_Witness ==
    \E r \in Requests :
        /\ handler[r] = "switch_project"
        /\ pc[r] = "done"
        /\ request[r].project_name = ProjectNames[2]
        /\ response[r].status = 200
        /\ current_project = ProjectNames[2]

ExpectedCgpa(p) ==
    LET d == DigitChars[ProjectIndex(p) + 1] IN
    <<[semester |-> PyStr(<<"8">>), cgpa |-> PyStr(<<"3", ".", d>>),
       publishedAt |-> CREATED_AT],
      [semester |-> FINAL, cgpa |-> PyStr(<<d>>),
       publishedAt |-> DEFAULT_PUBLISHED_AT]>>

\* C15: when a store matched, the CGPA lookup queries the sources in search
\* order from the first one, wherever the student was found, and stops at
\* the first source whose cgpa_records query returns rows: no later source
\* is queried, and cgpaData is exactly that source's records, one entry per
\* record. When no source returns rows, every source was queried and
\* cgpaData is the empty list.
C15_CgpaFirstNonEmpty ==
    \A r \in Requests :
        HitDone(r) =>
            LET cq == CgpaQueries(r)
                last == Len(cq) IN
            /\ last \in 1..Len(search_order)
            /\ \A k \in DOMAIN cq : cq[k].got = search_order[k]
            /\ \A k \in 1..(last - 1) : ~cq[k].found
            /\ IF cq[last].found
               THEN response[r].body.cgpaData = ExpectedCgpa(cq[last].got)
               ELSE /\ last = Len(search_order)
                    /\ response[r].body.cgpaData = <<>>

\* C15 witness: the student was found in the second source of the order
\* and the scan stopped at the first, whose two records are the cgpaData
C15_Witness ==
    \E r \in Requests :
        /\ HitDone(r)
        /\ Len(search_order) = 2
        /\ HitSource(r) = search_order[2]
        /\ Len(CgpaQueries(r)) = 1
        /\ CgpaQueries(r)[1].found
        /\ Len(response[r].body.cgpaData) = 2
        /\ response[r].body.cgpaData = ExpectedCgpa(search_order[1])

\* C16: the GPA records are fetched from the source where the student was
\* found, not from the source the CGPA scan stopped at; a fetch that raises
\* is not propagated: the request still returns the success document, with
\* an empty resultData.
C16_GpaFromFoundSource ==
    \A r \in Requests :
        (SearchDone(r) /\ StudentHit(r)) =>
            LET gq == GpaQueries(r) IN
            /\ response[r].status = 200
            /\ response[r].body.success = PyBool(TRUE)
            /\ Len(gq) = 1
            /\ gq[1].got = HitSource(r)
            /\ gq[1].raised => response[r].body.resultData = <<>>

\* C16 witness: found in the second source, CGPA scan stopped at the first,
\* and the GPA fetch, run on the second, raised
C16_Witness ==
    \E r \in Requests :
        /\ HitDone(r)
        /\ Len(search_order) = 2
        /\ HitSource(r) = search_order[2]
        /\ Len(CgpaQueries(r)) = 1
        /\ CgpaQueries(r)[1].found
        /\ GpaQueries(r)[1].raised
        /\ GpaQueries(r)[1].got = search_order[2]
        /\ response[r].body.resultData = <<>>

\* C17: an error raised by one source during the CGPA scan does not abort
\* the request: the scan goes on with the next source of the order, and
\* the request ends with the success document even when every source
\* raised during the scan.
C17_ScanSurvivesErrors ==
    \A r \in Requests :
        (SearchDone(r) /\ StudentHit(r)) =>
            LET cq == CgpaQueries(r) IN
            /\ response[r].status = 200
            /\ "resultData" \in DOMAIN response[r].body
            /\ \A k \in DOMAIN cq :
                    (cq[k].raised /\ k < Len(search_order)) =>
                        /\ k < Len(cq)
                        /\ cq[k + 1].got = search_order[k + 1]

\* C17 witness: both sources raised during the scan and the request still
\* returned the success document
C17_Witness ==
    \E r \in Requests :
        /\ HitDone(r)
        /\ Len(search_order) = 2
        /\ Len(CgpaQueries(r)) = 2
        /\ \A k \in 1..2 : CgpaQueries(r)[k].raised
        /\ response[r].body.cgpaData = <<>>

\* semester and gpa of the entries of a resultData
SemestersOf(data) == [i \in DOMAIN data |-> data[i].semester]
GpasOf(data) == [i \in DOMAIN data |-> data[i].gpa]

\* C18: resultData has exactly one entry per fetched GPA record, in the
\* order fetched (ascending semester): the two records of semesters 1 and 2
\* give two entries, "1" then "2", and no record gives no entry; so for a
\* student found in the second source with two GPA records.
C18_OneEntryPerRecord ==
    \A r \in Requests :
        HitDone(r) =>
            LET data == response[r].body.resultData IN
            IF GpaQueries(r)[1].found
            THEN /\ Len(data) = 2
                 /\ SemestersOf(data) = <<PyStr(<<"1">>), PyStr(<<"2">>)>>
                 /\ GpasOf(data) = <<PyStr(<<"3", ".", "5", "0">>), REF>>
            ELSE data = <<>>

\* C18 witness: the first source had no match, the second had the student
\* and two GPA records
C18_Witness ==
    \E r \in Requests :
        /\ HitDone(r)
        /\ Len(StudentQueries(r)) = 2
        /\ ~StudentQueries(r)[1].found
        /\ GpaQueries(r)[1].found
        /\ GpaQueries(r)[1].got = search_order[2]
        /\ response[r].body.success = PyBool(TRUE)
        /\ Len(response[r].body.resultData) = 2

\* C19: an admin test of a registered source, run without interleaving,
\* leaves the active-source pointer at the value it had when the test
\* began, whether the probe succeeded or raised; a test of an unregistered
\* name is answered 404 without any switch or probe.
C19_TestRestores ==
    /\ [](\A r \in Requests :
            (handler[r] = "test_project" /\ pc[r] = "done") =>
                IF request[r].project_name \in Projects
                THEN /\ current_project = original[r]
                     /\ Len(queries[r]) = 1
                     /\ response[r].status = (IF queries[r][1].raised THEN 500 ELSE 200)
                ELSE /\ response[r].status = 404
                     /\ original[r] = NoProject
                     /\ queries[r] = <<>>)
    /\ [][\A r \in Requests :
            (pc[r] = "idle" /\ handler'[r] = "test_project"
                            /\ request'[r].project_name \notin Projects) =>
                (pc'[r] = "done" /\ current_project' = current_project)]_vars

\* C19 witness: the probe of another source than the active one raised and
\* the pointer is back where it was
C19_Witness ==
    \E r \in Requests :
        /\ handler[r] = "test_project"
        /\ pc[r] = "done"
        /\ queries[r] # <<>>
        /\ queries[r][1].raised
        /\ queries[r][1].got = request[r].project_name
        /\ original[r] # request[r].project_name
        /\ current_project = original[r]
        /\ response[r].status = 500

\* C20: when a search request that found the student in a store completes
\* with the success document, without interleaving, the active-source
\* pointer is the source where the student was found, whatever source the
\* CGPA scan stopped at and whatever the pointer was before the request.
C20_PointerAtFoundSource ==
    \A r \in Requests : HitDone(r) => current_project = HitSource(r)

\* C20 witness: found in the second source while the pointer was on the
\* first, where the CGPA scan stopped
C20_Witness ==
    \E r \in Requests :
        /\ HitDone(r)
        /\ Len(search_order) = 2
        /\ HitSource(r) = search_order[2]
        /\ original[r] = search_order[1]
        /\ Len(CgpaQueries(r)) = 1
        /\ CgpaQueries(r)[1].found
        /\ CgpaQueries(r)[1].got = search_order[1]
        /\ current_project = search_order[2]


====
